---- MODULE Spec2Model ----
(***************************************************************************)
(* Model of package muxify (42LM/xxsmux), src/muxify.go.                   *)
(*                                                                         *)
(* Strings are sequences of one-character strings, so that splitting,      *)
(* concatenation and the removal of doubled slashes are computed as the    *)
(* code computes them.  A handler is the sequence of the middlewares       *)
(* wrapped around it, outermost first, ending with the wrapped handler.    *)
(***************************************************************************)
EXTENDS Naturals, Integers, Sequences, FiniteSets, TLC

\* ------------------------------------------------------------------ bounds
\* The calls a run makes.
MaxCalls == 5

\* The middlewares handed to one newHandler call.
MaxChain == 3

\* ------------------------------------------------------------------ inputs
\* Handlers and middlewares are opaque: a handler is named by the Pattern call
\* that passed it, a middleware by the Use call that passed it.
HandlerOf(call) == <<"h", call>>
OtherHandlerOf(call) == <<"g", call>>
MiddlewareOf(call) == <<"m", call>>

\* The prefixes handed to Prefix on builder b: "" and "p//", "q//", ..., one
\* letter for each builder.
Letters == <<"p", "q", "r", "s", "t", "u", "v", "w">>
PrefixInputs(b) ==
    { <<>>, <<(IF b <= Len(Letters) THEN Letters[b] ELSE "z"), "/", "/">> }

\* "G /a", "G //a", "//a", "G a" (the path has no leading slash)
SpecGa == <<"G", " ", "/", "a">>
SpecGaa == <<"G", " ", "/", "/", "a">>
SpecBare == <<"/", "/", "a">>
SpecNoSlash == <<"G", " ", "a">>

\* The maps handed to the call-th Pattern call (pattern spec -> handler).
PatternInputs(call) ==
    { [s \in {SpecBare} |-> HandlerOf(call)],
      [s \in {SpecNoSlash} |-> HandlerOf(call)],
      [s \in {SpecGa, SpecGaa} |->
          IF s = SpecGa THEN HandlerOf(call) ELSE OtherHandlerOf(call)] }

\* ------------------------------------------------------------------ state
VARIABLES
    Patterns,            \* node -> (key -> handler)       ServeMuxBuilder.Patterns
    PatternPrefix,       \* node -> string                 ServeMuxBuilder.PatternPrefix
    Middlewares,         \* node -> sequence of middleware ServeMuxBuilder.Middlewares
    Root,                \* node -> node                   ServeMuxBuilder.Root
    Parent,              \* node -> node                   ServeMuxBuilder.Parent
    SubServeMuxBuilder,  \* node -> sequence of nodes      ServeMuxBuilder.SubServeMuxBuilder
    executedBuild,       \* node -> BOOLEAN                ServeMuxBuilder.executedBuild
    registeredPatterns,  \* node -> sequence of keys       ServeMuxBuilder.registeredPatterns
    defaultServeMux,     \* the table of the latest Build call (key -> wrapped handler)
    buildResult,         \* how the latest Build call ended: it returned, or it
                         \* panicked, with the panic's reason and pattern
    ncalls,              \* how many calls were made
    frag,                \* history: node -> the fragment the latest Prefix call set
    inherited,           \* history: node -> the parent's Middlewares when the node was created
    used,                \* history: node -> the middlewares passed to Use on the node
    \* the Mux variant
    muxify,              \* the http.ServeMux all the Mux values share (key -> wrapped handler)
    patternPrefix,       \* mux -> string                  Mux.patternPrefix
    middlewares,         \* mux -> slice header            Mux.middlewares
    arrays,              \* the arrays that back the middleware slices
    muxRegisteredPatterns, \* the list all the Mux values share   *Mux.registeredPatterns
    muxPanic,            \* how the latest Handle or HandleFunc call ended: "" or the panic
    muxInherited,        \* history: mux -> the prefix it was created with
    muxFrag,             \* history: mux -> the fragment the latest Prefix call was given
    muxChain,            \* history: mux -> the middlewares it was created with, then
                         \* those passed to Use on it
    \* one use of newHandler
    argMw,               \* the middlewares handed to newHandler
    argH,                \* the handler handed to the wrapper
    wrapped,             \* newHandler(argMw...)(argH), <<>> before the call
    trace,               \* what serving one request with wrapped ran, <<>> before it
    \* the two-level scenario
    phase                \* "free" in a run of any calls; else the latest call of the scenario

builderVars == << Patterns, PatternPrefix, Middlewares, Root, Parent, SubServeMuxBuilder,
                  executedBuild, registeredPatterns, defaultServeMux, buildResult,
                  frag, inherited, used >>

muxVars == << muxify, patternPrefix, middlewares, arrays, muxRegisteredPatterns,
              muxPanic, muxInherited, muxFrag, muxChain >>

handlerVars == << argMw, argH, wrapped, trace >>

vars == << builderVars, muxVars, handlerVars, ncalls, phase >>

Nodes == 1 .. Len(Parent)

EmptyMap == [k \in {} |-> <<>>]

\* ------------------------------------------------------------------ strings
RECURSIVE SkipSlashes(_)
SkipSlashes(t) ==
    IF t # <<>> /\ Head(t) = "/" THEN SkipSlashes(Tail(t)) ELSE t

\* regexp `//+` replaced by "/": every run of slashes becomes one slash.
RECURSIVE CollapseRuns(_)
CollapseRuns(t) ==
    IF t = <<>> THEN <<>>
    ELSE IF Head(t) = "/" THEN <<"/">> \o CollapseRuns(SkipSlashes(Tail(t)))
    ELSE <<Head(t)>> \o CollapseRuns(Tail(t))

\* regexp `//` (without the +) replaced by "/": each pair becomes one slash.
RECURSIVE CollapsePairs(_)
CollapsePairs(t) ==
    IF t = <<>> THEN <<>>
    ELSE IF Len(t) >= 2 /\ t[1] = "/" /\ t[2] = "/"
         THEN <<"/">> \o CollapsePairs(Tail(Tail(t)))
    ELSE <<Head(t)>> \o CollapsePairs(Tail(t))

removeDoubleSlash(text) == CollapseRuns(text)

\* strings.Split(pattern, " ")
RECURSIVE Split(_)
Split(s) ==
    IF \E i \in 1 .. Len(s) : s[i] = " "
    THEN LET i == CHOOSE j \in 1 .. Len(s) :
                      s[j] = " " /\ \A k \in 1 .. (j - 1) : s[k] # " "
         IN <<SubSeq(s, 1, i - 1)>> \o Split(SubSeq(s, i + 1, Len(s)))
    ELSE <<s>>

\* The switch of Pattern: the method (with its trailing space) of a spec.
MethodOf(pattern) ==
    LET tmpPattern == Split(pattern)
    IN IF Len(tmpPattern) = 2 THEN tmpPattern[1] \o <<" ">> ELSE <<>>

\* The switch of Pattern: the path of a spec.
PathOf(pattern) ==
    LET tmpPattern == Split(pattern)
    IN IF Len(tmpPattern) = 2 THEN tmpPattern[2] ELSE tmpPattern[1]

\* Prefix: a leading slash is put before a non-empty prefix that has none.
NormalizePrefix(prefix) ==
    IF Len(prefix) > 0 /\ prefix[1] # "/" THEN <<"/">> \o prefix ELSE prefix

\* ------------------------------------------------------------------ newHandler
\* mw[i](h): the middleware wrapped around h.
Wrap(m, h) == <<m>> \o h

\* for i := len(mw) - 1; i >= 0; i-- { h = mw[i](h) }
RECURSIVE WrapBackward(_, _, _)
WrapBackward(mw, i, h) ==
    IF i < 1 THEN h ELSE WrapBackward(mw, i - 1, Wrap(mw[i], h))

\* for _, m := range mw { next = m(next) }
RECURSIVE WrapForward(_, _, _)
WrapForward(mw, i, h) ==
    IF i > Len(mw) THEN h ELSE WrapForward(mw, i + 1, Wrap(mw[i], h))

\* The wrapper that applies the middlewares first to last.
newHandlerForward(mw, h) == WrapForward(mw, 1, h)

newHandler(mw, h) == WrapBackward(mw, Len(mw), h)

\* Serving one request with a handler: each middleware runs its logic before
\* the next handler, calls it, and runs its logic after it.
RECURSIVE ServeHTTP(_)
ServeHTTP(h) ==
    IF Len(h) = 1 THEN <<<<"handler", h[1]>>>>
    ELSE <<<<"pre", h[1]>>>> \o ServeHTTP(Tail(h)) \o <<<<"post", h[1]>>>>

\* ------------------------------------------------------------------ maps
\* m[key] = handler
Put(m, key, handler) ==
    [k \in (DOMAIN m) \cup {key} |-> IF k = key THEN handler ELSE m[k]]

\* The orders in which a range loop may visit the keys of a Go map.
Orders(S) ==
    { o \in [1 .. Cardinality(S) -> S] : \A i, j \in DOMAIN o : o[i] = o[j] => i = j }

\* ------------------------------------------------------------------ NewServeMuxBuilder
NewServeMuxBuilder ==
    /\ Patterns = <<EmptyMap>>
    /\ PatternPrefix = << <<>> >>
    /\ Middlewares = << <<>> >>
    /\ Root = <<1>>
    /\ Parent = <<1>>
    /\ SubServeMuxBuilder = << <<>> >>
    /\ executedBuild = <<FALSE>>
    /\ registeredPatterns = << <<>> >>
    /\ defaultServeMux = EmptyMap
    /\ buildResult = [status |-> "none", reason |-> "", pattern |-> <<>>]
    /\ frag = << <<>> >>
    /\ inherited = << <<>> >>
    /\ used = << <<>> >>

\* ------------------------------------------------------------------ Pattern
\* The builders the inner loop of Pattern visits, in order: for every entry of
\* b.Parent.SubServeMuxBuilder, every entry of its SubServeMuxBuilder.
RECURSIVE SubSubBuilders(_)
SubSubBuilders(subs) ==
    IF subs = <<>> THEN <<>>
    ELSE SubServeMuxBuilder[Head(subs)] \o SubSubBuilders(Tail(subs))

\* b.PatternPrefix = subSubBuilder.PatternPrefix, for each of them in turn; b's own
\* prefix is read as it stands at that moment.
RECURSIVE ScanPrefix(_, _, _)
ScanPrefix(b, cur, subSubs) ==
    IF subSubs = <<>> THEN cur
    ELSE ScanPrefix(b,
                    IF Head(subSubs) = b THEN cur ELSE PatternPrefix[Head(subSubs)],
                    Tail(subSubs))

\* b.PatternPrefix after the scan and before the node's own prefix is appended.
\* b.PatternPrefix is cleared before b.Root.PatternPrefix is read.
ScannedPrefix(b) ==
    LET fromRoot == IF Root[b] = b THEN <<>> ELSE PatternPrefix[Root[b]]
    IN IF Parent[b] # Root[b]
       THEN ScanPrefix(b, fromRoot, SubSubBuilders(SubServeMuxBuilder[Parent[b]]))
       ELSE fromRoot

\* b.PatternPrefix when Pattern does not put the root's prefix before it.
PatternPrefixOwn(b) == PatternPrefix[b]

\* b.PatternPrefix as Pattern leaves it.
PatternPrefixAfter(b) == ScannedPrefix(b) \o PatternPrefix[b]

\* method + removeDoubleSlash(b.PatternPrefix + patternPath)
PatternKey(prefix, pattern) ==
    MethodOf(pattern) \o removeDoubleSlash(prefix \o PathOf(pattern))

\* The range loop of Pattern over the specs in the order ord.
RECURSIVE StorePatterns(_, _, _, _, _)
StorePatterns(m, prefix, patterns, ord, i) ==
    IF i > Len(ord) THEN m
    ELSE StorePatterns(Put(m, PatternKey(prefix, ord[i]), patterns[ord[i]]),
                       prefix, patterns, ord, i + 1)

\* The key the ancestor-chain rule gives a spec registered on node n: the
\* fragments set by Prefix from the root down to n, then the path, with runs of
\* slashes collapsed.
RECURSIVE ChainPrefix(_)
ChainPrefix(n) ==
    IF Parent[n] = n THEN frag[n] ELSE ChainPrefix(Parent[n]) \o frag[n]

ChainKey(n, pattern) ==
    MethodOf(pattern) \o CollapseRuns(ChainPrefix(n) \o PathOf(pattern))

\* Every Pattern call appends the builder to its own SubServeMuxBuilder.
RECURSIVE Count(_, _)
Count(s, x) ==
    IF s = <<>> THEN 0 ELSE (IF Head(s) = x THEN 1 ELSE 0) + Count(Tail(s), x)

RECURSIVE SumOver(_, _)
SumOver(f, n) == IF n = 0 THEN 0 ELSE f[n] + SumOver(f, n - 1)

PatternCalls ==
    SumOver([n \in Nodes |-> Count(SubServeMuxBuilder[n], n)], Len(Parent))

Uses == SumOver([n \in Nodes |-> Len(used[n])], Len(Parent))

\* One more call: a run of any calls stays within the bound, the scenario
\* follows its script.
Call ==
    /\ IF phase = "free" THEN ncalls < MaxCalls /\ UNCHANGED phase ELSE TRUE
    /\ ncalls' = ncalls + 1

Pattern(b, patterns, ord) ==
    /\ Call
    /\ LET prefix == PatternPrefixAfter(b)
       IN /\ PatternPrefix' = [PatternPrefix EXCEPT ![b] = prefix]
          /\ Patterns' = [Patterns EXCEPT
                            ![b] = StorePatterns(Patterns[b], prefix, patterns, ord, 1)]
    /\ SubServeMuxBuilder' =
           [SubServeMuxBuilder EXCEPT ![b] = Append(SubServeMuxBuilder[b], b)]
    /\ UNCHANGED << Middlewares, Root, Parent, executedBuild, registeredPatterns,
                    defaultServeMux, buildResult, frag, inherited, used >>
    /\ UNCHANGED << muxVars, handlerVars >>

\* ------------------------------------------------------------------ Use
\* Use on a builder when the built table is a live view of the tree: the
\* middleware also reaches the handlers the table holds for the builder.
UseLive(b, middleware) ==
    /\ Call
    /\ Middlewares' = [Middlewares EXCEPT ![b] = Middlewares[b] \o middleware]
    /\ used' = [used EXCEPT ![b] = used[b] \o middleware]
    /\ defaultServeMux' =
           [k \in DOMAIN defaultServeMux |->
               IF k \in DOMAIN Patterns[b]
               THEN newHandler(Middlewares'[b], <<Patterns[b][k]>>)
               ELSE defaultServeMux[k]]
    /\ UNCHANGED << Patterns, PatternPrefix, Root, Parent, SubServeMuxBuilder,
                    executedBuild, registeredPatterns, buildResult, frag, inherited >>
    /\ UNCHANGED << muxVars, handlerVars >>

Use(b, middleware) ==
    /\ Call
    /\ Middlewares' = [Middlewares EXCEPT ![b] = Middlewares[b] \o middleware]
    /\ used' = [used EXCEPT ![b] = used[b] \o middleware]
    /\ UNCHANGED << Patterns, PatternPrefix, Root, Parent, SubServeMuxBuilder,
                    executedBuild, registeredPatterns, defaultServeMux, buildResult,
                    frag, inherited >>
    /\ UNCHANGED << muxVars, handlerVars >>

\* ------------------------------------------------------------------ Prefix
Prefix(b, prefix) ==
    /\ Call
    /\ PatternPrefix' = [PatternPrefix EXCEPT ![b] = NormalizePrefix(prefix)]
    /\ frag' = [frag EXCEPT ![b] = NormalizePrefix(prefix)]
    /\ UNCHANGED << Patterns, Middlewares, Root, Parent, SubServeMuxBuilder,
                    executedBuild, registeredPatterns, defaultServeMux, buildResult,
                    inherited, used >>
    /\ UNCHANGED << muxVars, handlerVars >>

\* ------------------------------------------------------------------ Subrouter
\* The middlewares the new builder starts with, whose Parent is b: the list is
\* copied into a fresh slice.
SubrouterMiddlewaresFromRoot(b) == Middlewares[Root[b]]

SubrouterMiddlewares(b) ==
    IF b # Root[b] THEN Middlewares[b] ELSE Middlewares[Root[b]]

\* Subrouter when the new builder is left as NewServeMuxBuilder made it, its own
\* Parent and Root.
SubrouterUnlinked(b) ==
    /\ Call
    /\ Patterns' = Append(Patterns, EmptyMap)
    /\ PatternPrefix' = Append(PatternPrefix, <<>>)
    /\ Parent' = Append(Parent, Len(Parent) + 1)
    /\ Root' = Append(Root, Len(Parent) + 1)
    /\ Middlewares' = Append(Middlewares, SubrouterMiddlewares(b))
    /\ SubServeMuxBuilder' =
           Append([SubServeMuxBuilder EXCEPT
                     ![b] = Append(SubServeMuxBuilder[b], Len(Parent) + 1)], <<>>)
    /\ executedBuild' = Append(executedBuild, FALSE)
    /\ registeredPatterns' = Append(registeredPatterns, <<>>)
    /\ frag' = Append(frag, <<>>)
    /\ inherited' = Append(inherited, Middlewares[b])
    /\ used' = Append(used, <<>>)
    /\ UNCHANGED << defaultServeMux, buildResult >>
    /\ UNCHANGED << muxVars, handlerVars >>

Subrouter(b) ==
    /\ Call
    /\ Patterns' = Append(Patterns, EmptyMap)
    /\ PatternPrefix' = Append(PatternPrefix, <<>>)
    /\ Parent' = Append(Parent, b)
    /\ Root' = Append(Root, Root[b])
    /\ Middlewares' = Append(Middlewares, SubrouterMiddlewares(b))
    /\ SubServeMuxBuilder' =
           Append([SubServeMuxBuilder EXCEPT
                     ![b] = Append(SubServeMuxBuilder[b], Len(Parent) + 1)], <<>>)
    /\ executedBuild' = Append(executedBuild, FALSE)
    /\ registeredPatterns' = Append(registeredPatterns, <<>>)
    /\ frag' = Append(frag, <<>>)
    /\ inherited' = Append(inherited, Middlewares[b])
    /\ used' = Append(used, <<>>)
    /\ UNCHANGED << defaultServeMux, buildResult >>
    /\ UNCHANGED << muxVars, handlerVars >>

\* ------------------------------------------------------------------ Build
\* The path part of a pattern handed to http.ServeMux: what follows the method.
SinkPath(pattern) ==
    LET parts == Split(pattern)
    IN IF Len(parts) = 1 THEN parts[1] ELSE parts[2]

\* http.ServeMux accepts a pattern that is not empty and whose path part holds a
\* slash.
SinkAccepts(pattern) ==
    /\ pattern # <<>>
    /\ \E i \in 1 .. Len(SinkPath(pattern)) : SinkPath(pattern)[i] = "/"

\* defaultServeMux.Handle(pattern, handler) when the table overwrote an entry.
HandleOverwriting(mux, pattern, handler) ==
    IF ~SinkAccepts(pattern)
    THEN [panic |-> "invalid pattern", mux |-> mux]
    ELSE [panic |-> "", mux |-> Put(mux, pattern, handler)]

\* defaultServeMux.Handle(pattern, handler): http.ServeMux panics on a pattern it
\* cannot parse and on a pattern that conflicts with a registered one.
Handle(mux, pattern, handler) ==
    IF ~SinkAccepts(pattern)
    THEN [panic |-> "invalid pattern", mux |-> mux]
    ELSE IF pattern \in DOMAIN mux
    THEN [panic |-> "conflict", mux |-> mux]
    ELSE [panic |-> "", mux |-> Put(mux, pattern, handler)]

\* The builders the loop of Build processes when the visited check comes after
\* the processing and only guards the appending of the children.
RECURSIVE TraverseRepeating(_, _)
TraverseRepeating(queue, visited) ==
    IF queue = <<>> THEN <<>>
    ELSE LET current == Head(queue)
         IN <<current>> \o
            (IF current \in visited
             THEN TraverseRepeating(Tail(queue), visited)
             ELSE TraverseRepeating(Tail(queue) \o SubServeMuxBuilder[current],
                                    visited \cup {current}))

\* The builders the loop of Build processes when the children are put at the
\* front of the queue: depth first.
RECURSIVE TraverseDepthFirst(_, _)
TraverseDepthFirst(queue, visited) ==
    IF queue = <<>> THEN <<>>
    ELSE LET current == Head(queue)
         IN IF current \in visited
            THEN TraverseDepthFirst(Tail(queue), visited)
            ELSE <<current>> \o
                 TraverseDepthFirst(SubServeMuxBuilder[current] \o Tail(queue),
                                    visited \cup {current})

\* The builders the loop of Build processes, in order: the queue is served first
\* in, first out, a visited builder is skipped, the children are appended.
RECURSIVE Traverse(_, _)
Traverse(queue, visited) ==
    IF queue = <<>> THEN <<>>
    ELSE LET current == Head(queue)
         IN IF current \in visited
            THEN Traverse(Tail(queue), visited)
            ELSE <<current>> \o Traverse(Tail(queue) \o SubServeMuxBuilder[current],
                                         visited \cup {current})

\* The number of iterations of the loop of Build: one for every entry taken from
\* the queue.
RECURSIVE Iterations(_, _)
Iterations(queue, visited) ==
    IF queue = <<>> THEN 0
    ELSE LET current == Head(queue)
         IN 1 + (IF current \in visited
                 THEN Iterations(Tail(queue), visited)
                 ELSE Iterations(Tail(queue) \o SubServeMuxBuilder[current],
                                 visited \cup {current}))

\* The (builder, pattern) pairs Build registers, in every order the range loops
\* over the Patterns maps allow.
RECURSIVE Registrations(_)
Registrations(order) ==
    IF order = <<>> THEN { <<>> }
    ELSE { [i \in 1 .. Len(o) |-> [node |-> Head(order), pattern |-> o[i]]] \o rest :
             o \in Orders(DOMAIN Patterns[Head(order)]),
             rest \in Registrations(Tail(order)) }

\* The loop body of Build when a handler is wrapped by the middlewares its
\* builder had when it was created, without those passed to Use on it.
RECURSIVE RegisterAllAtCreation(_, _, _, _)
RegisterAllAtCreation(items, i, mux, registered) ==
    IF i > Len(items)
    THEN [panic |-> "", pattern |-> <<>>, mux |-> mux, registered |-> registered]
    ELSE LET current == items[i].node
             pattern == items[i].pattern
             r == Handle(mux, pattern,
                         newHandler(inherited[current], <<Patterns[current][pattern]>>))
         IN IF r.panic # ""
            THEN [panic |-> r.panic, pattern |-> pattern, mux |-> mux,
                  registered |-> Append(registered, pattern)]
            ELSE RegisterAllAtCreation(items, i + 1, r.mux, Append(registered, pattern))

\* The body of the range loop of Build for the items from the i-th on: the
\* pattern is appended to the root's registeredPatterns, then handed to Handle,
\* whose panic ends Build.
RECURSIVE RegisterAll(_, _, _, _)
RegisterAll(items, i, mux, registered) ==
    IF i > Len(items)
    THEN [panic |-> "", pattern |-> <<>>, mux |-> mux, registered |-> registered]
    ELSE LET current == items[i].node
             pattern == items[i].pattern
             r == Handle(mux, pattern,
                         newHandler(Middlewares[current], <<Patterns[current][pattern]>>))
         IN IF r.panic # ""
            THEN [panic |-> r.panic, pattern |-> pattern, mux |-> mux,
                  registered |-> Append(registered, pattern)]
            ELSE RegisterAll(items, i + 1, r.mux, Append(registered, pattern))

\* The registrations of a traversal that starts at the builder Build was called
\* on: queue := []*ServeMuxBuilder{b}.
BuildItemsFromReceiver(b) == Registrations(Traverse(<<b>>, {}))

\* The registrations of a Build call on b: queue := []*ServeMuxBuilder{b.Root}.
BuildItems(b) == Registrations(Traverse(<<Root[b]>>, {}))

Build(b, items) ==
    /\ Call
    /\ LET root == Root[b]
           r == RegisterAll(items, 1, EmptyMap, registeredPatterns[root])
       IN /\ registeredPatterns' = [registeredPatterns EXCEPT ![root] = r.registered]
          /\ IF r.panic = ""
             THEN /\ executedBuild' = [executedBuild EXCEPT ![root] = TRUE]
                  /\ defaultServeMux' = r.mux
             ELSE UNCHANGED << executedBuild, defaultServeMux >>
          /\ buildResult' = [status |-> IF r.panic = "" THEN "returned" ELSE "panic",
                             reason |-> r.panic, pattern |-> r.pattern]
    /\ UNCHANGED << Patterns, PatternPrefix, Middlewares, Root, Parent,
                    SubServeMuxBuilder, frag, inherited, used >>
    /\ UNCHANGED << muxVars, handlerVars >>

\* ------------------------------------------------------------------ Mux: slices
\* A slice is a header (array, len, cap) over a backing array; array 0 is the
\* nil slice.  Two headers over one array share its elements.
NilSlice == [array |-> 0, len |-> 0, cap |-> 0]

\* The elements s[0:len(s)].
SliceElems(arrs, s) == IF s.array = 0 THEN <<>> ELSE SubSeq(arrs[s.array], 1, s.len)

\* The capacities the allocator's size classes give a slice of one-word
\* elements.
SizeClasses == {1, 2, 3, 4} \cup { 2 * k : k \in 3 .. 16 }

roundupsize(n) ==
    IF \E c \in SizeClasses : c >= n
    THEN CHOOSE c \in SizeClasses : c >= n /\ \A d \in SizeClasses : d >= n => c <= d
    ELSE n

\* The capacity of the array a slice of capacity oldCap grows into to hold newLen.
nextslicecap(newLen, oldCap) ==
    roundupsize(IF newLen > oldCap + oldCap THEN newLen ELSE oldCap + oldCap)

\* append(s, elems...): within the capacity the elements are written into the
\* backing array behind s; beyond it s is copied into a new array.
AppendSlice(arrs, s, elems) ==
    LET newLen == s.len + Len(elems)
    IN IF newLen <= s.cap
       THEN [slice |-> [s EXCEPT !.len = newLen],
             arrays |-> [arrs EXCEPT ![s.array] =
                            [i \in 1 .. s.cap |->
                                IF i > s.len /\ i <= newLen THEN elems[i - s.len] ELSE @[i]]]]
       ELSE LET newCap == nextslicecap(newLen, s.cap)
                old == SliceElems(arrs, s)
            IN [slice |-> [array |-> Len(arrs) + 1, len |-> newLen, cap |-> newCap],
                arrays |-> Append(arrs,
                             [i \in 1 .. newCap |->
                                 IF i <= s.len THEN old[i]
                                 ELSE IF i <= newLen THEN elems[i - s.len]
                                 ELSE "nil"])]

\* ------------------------------------------------------------------ Mux
Muxes == 1 .. Len(patternPrefix)

NewMux ==
    /\ muxify = EmptyMap
    /\ patternPrefix = << <<>> >>
    /\ middlewares = <<NilSlice>>
    /\ arrays = <<>>
    /\ muxRegisteredPatterns = <<>>
    /\ muxPanic = ""
    /\ muxInherited = << <<>> >>
    /\ muxFrag = << <<>> >>
    /\ muxChain = << <<>> >>

splitPattern(pattern) ==
    [method |-> MethodOf(pattern), patternPath |-> PathOf(pattern)]

\* http.HandlerFunc(handlerFunc)
HandlerFunc(handlerFunc) == <<"HandlerFunc", handlerFunc>>

MuxHandle(mux, pattern, handler) ==
    /\ Call
    /\ LET sp == splitPattern(pattern)
           key == sp.method \o patternPrefix[mux] \o sp.patternPath
           r == Handle(muxify, key,
                       newHandler(SliceElems(arrays, middlewares[mux]), <<handler>>))
       IN /\ muxify' = r.mux
          /\ muxPanic' = r.panic
          /\ muxRegisteredPatterns' =
                 IF r.panic = "" THEN Append(muxRegisteredPatterns, key)
                 ELSE muxRegisteredPatterns
    /\ UNCHANGED << patternPrefix, middlewares, arrays, muxInherited, muxFrag,
                    muxChain >>
    /\ UNCHANGED << builderVars, handlerVars >>

MuxHandleFunc(mux, pattern, handlerFunc) ==
    /\ Call
    /\ LET sp == splitPattern(pattern)
           key == sp.method \o patternPrefix[mux] \o sp.patternPath
           r == Handle(muxify, key,
                       newHandler(SliceElems(arrays, middlewares[mux]),
                                  <<HandlerFunc(handlerFunc)>>))
       IN /\ muxify' = r.mux
          /\ muxPanic' = r.panic
          /\ muxRegisteredPatterns' =
                 IF r.panic = "" THEN Append(muxRegisteredPatterns, key)
                 ELSE muxRegisteredPatterns
    /\ UNCHANGED << patternPrefix, middlewares, arrays, muxInherited, muxFrag,
                    muxChain >>
    /\ UNCHANGED << builderVars, handlerVars >>

\* The new Mux shares the table, the list and the middleware slice of mux.
MuxSubrouter(mux) ==
    /\ Call
    /\ patternPrefix' = Append(patternPrefix, patternPrefix[mux])
    /\ middlewares' = Append(middlewares, middlewares[mux])
    /\ muxInherited' = Append(muxInherited, patternPrefix[mux])
    /\ muxFrag' = Append(muxFrag, <<>>)
    /\ muxChain' = Append(muxChain, SliceElems(arrays, middlewares[mux]))
    /\ UNCHANGED << muxify, arrays, muxRegisteredPatterns, muxPanic >>
    /\ UNCHANGED << builderVars, handlerVars >>

MuxUse(mux, middleware) ==
    /\ Call
    /\ LET r == AppendSlice(arrays, middlewares[mux], middleware)
       IN /\ middlewares' = [middlewares EXCEPT ![mux] = r.slice]
          /\ arrays' = r.arrays
    /\ muxChain' = [muxChain EXCEPT ![mux] = @ \o middleware]
    /\ UNCHANGED << muxify, patternPrefix, muxRegisteredPatterns, muxPanic,
                    muxInherited, muxFrag >>
    /\ UNCHANGED << builderVars, handlerVars >>

MuxPrefix(mux, prefix) ==
    /\ Call
    /\ patternPrefix' = [patternPrefix EXCEPT ![mux] = @ \o NormalizePrefix(prefix)]
    /\ muxFrag' = [muxFrag EXCEPT ![mux] = NormalizePrefix(prefix)]
    /\ UNCHANGED << muxify, middlewares, arrays, muxRegisteredPatterns, muxPanic,
                    muxInherited, muxChain >>
    /\ UNCHANGED << builderVars, handlerVars >>

\* ------------------------------------------------------------------ one use of newHandler
HandlerWrap ==
    /\ wrapped = <<>>
    /\ wrapped' = newHandler(argMw, <<argH>>)
    /\ UNCHANGED << argMw, argH, trace >>
    /\ UNCHANGED << builderVars, muxVars, ncalls, phase >>

HandlerServe ==
    /\ wrapped # <<>>
    /\ trace = <<>>
    /\ trace' = ServeHTTP(wrapped)
    /\ UNCHANGED << argMw, argH, wrapped >>
    /\ UNCHANGED << builderVars, muxVars, ncalls, phase >>

\* ------------------------------------------------------------------ specification
\* The builder and the Mux after construction.
Init ==
    /\ NewServeMuxBuilder
    /\ NewMux
    /\ ncalls = 0
    /\ argMw = <<>>
    /\ argH = "h"
    /\ wrapped = <<>>
    /\ trace = <<>>
    /\ phase = "free"

\* The middlewares handed to the call-th Use call.
UseInputs(call) == { <<MiddlewareOf(call)>> }

DoPattern == \E b \in Nodes, patterns \in PatternInputs(PatternCalls + 1) :
                 \E ord \in Orders(DOMAIN patterns) : Pattern(b, patterns, ord)
DoUse == \E b \in Nodes, middleware \in UseInputs(Uses + 1) : Use(b, middleware)
DoPrefix == \E b \in Nodes : \E prefix \in PrefixInputs(b) : Prefix(b, prefix)
DoSubrouter == \E b \in Nodes : Subrouter(b)
DoBuild == \E b \in Nodes : \E items \in BuildItems(b) : Build(b, items)

Next == DoPattern \/ DoUse \/ DoPrefix \/ DoSubrouter \/ DoBuild

Spec == Init /\ [][Next]_vars

\* The Mux variant.  Handlers are named by the call that passes them.
MuxPrefixInputs == { <<"p">>, <<"/", "q">> }
MuxPatternInputs == { SpecGa, SpecNoSlash }
MuxUseInputs(call) ==
    { <<MiddlewareOf(call)>>, <<MiddlewareOf(call), <<"n", call>> >> }

DoMuxHandle == \E mux \in Muxes, pattern \in MuxPatternInputs :
                   MuxHandle(mux, pattern, HandlerOf(ncalls + 1))
DoMuxHandleFunc == \E mux \in Muxes, pattern \in MuxPatternInputs :
                       MuxHandleFunc(mux, pattern, OtherHandlerOf(ncalls + 1))
DoMuxSubrouter == \E mux \in Muxes : MuxSubrouter(mux)
DoMuxUse == \E mux \in Muxes, middleware \in MuxUseInputs(ncalls + 1) :
                MuxUse(mux, middleware)
DoMuxPrefix == \E mux \in Muxes, prefix \in MuxPrefixInputs : MuxPrefix(mux, prefix)

NextMux == DoMuxHandle \/ DoMuxHandleFunc \/ DoMuxSubrouter \/ DoMuxUse \/ DoMuxPrefix

SpecMux == Init /\ [][NextMux]_vars

\* One use of newHandler: every sequence of at most MaxChain middlewares, around
\* one of two handlers.
HandlerMiddlewares == { MiddlewareOf(i) : i \in 1 .. MaxChain }

InitHandler ==
    /\ NewServeMuxBuilder
    /\ NewMux
    /\ ncalls = 0
    /\ argMw \in UNION { [1 .. n -> HandlerMiddlewares] : n \in 0 .. MaxChain }
    /\ argH \in {"h", "g"}
    /\ wrapped = <<>>
    /\ trace = <<>>
    /\ phase = "free"

NextHandler == HandlerWrap \/ HandlerServe

SpecHandler == InitHandler /\ [][NextHandler]_vars

\* The two-level scenario of the README: the root is given a prefix, middlewares
\* and patterns; a subrouter created afterwards is given a prefix and
\* middlewares, in either order, and then patterns; then Build is called.  The
\* pattern specs are well formed.
ScenarioPrefixInputs(b) == PrefixInputs(b) \cup { <<"v">> }
ScenarioUseInputs(call) ==
    { <<MiddlewareOf(call)>>, <<MiddlewareOf(call), <<"n", call>> >> }
ScenarioPatternInputs(call) ==
    PatternInputs(call) \ { [s \in {SpecNoSlash} |-> HandlerOf(call)] }

ScenarioRootPrefix ==
    /\ phase = "start"
    /\ phase' = "rootPrefix"
    /\ \E prefix \in ScenarioPrefixInputs(1) : Prefix(1, prefix)

ScenarioRootUse ==
    /\ phase = "rootPrefix"
    /\ phase' = "rootUse"
    /\ \E middleware \in ScenarioUseInputs(Uses + 1) : Use(1, middleware)

ScenarioRootPattern ==
    /\ phase = "rootUse"
    /\ phase' = "rootPattern"
    /\ \E patterns \in ScenarioPatternInputs(PatternCalls + 1) :
          \E ord \in Orders(DOMAIN patterns) : Pattern(1, patterns, ord)

ScenarioSubrouter ==
    /\ phase = "rootPattern"
    /\ phase' = "child"
    /\ Subrouter(1)

ScenarioChildPrefix ==
    /\ phase \in {"child", "childUse"}
    /\ phase' = IF phase = "child" THEN "childPrefix" ELSE "childReady"
    /\ \E prefix \in ScenarioPrefixInputs(2) : Prefix(2, prefix)

ScenarioChildUse ==
    /\ phase \in {"child", "childPrefix"}
    /\ phase' = IF phase = "child" THEN "childUse" ELSE "childReady"
    /\ \E middleware \in ScenarioUseInputs(Uses + 1) : Use(2, middleware)

ScenarioChildPattern ==
    /\ phase = "childReady"
    /\ phase' = "childPattern"
    /\ \E patterns \in ScenarioPatternInputs(PatternCalls + 1) :
          \E ord \in Orders(DOMAIN patterns) : Pattern(2, patterns, ord)

ScenarioBuild ==
    /\ phase = "childPattern"
    /\ phase' = "built"
    /\ \E b \in Nodes : \E items \in BuildItems(b) : Build(b, items)

InitScenario ==
    /\ NewServeMuxBuilder
    /\ NewMux
    /\ ncalls = 0
    /\ argMw = <<>>
    /\ argH = "h"
    /\ wrapped = <<>>
    /\ trace = <<>>
    /\ phase = "start"

NextScenario ==
    \/ ScenarioRootPrefix
    \/ ScenarioRootUse
    \/ ScenarioRootPattern
    \/ ScenarioSubrouter
    \/ ScenarioChildPrefix
    \/ ScenarioChildUse
    \/ ScenarioChildPattern
    \/ ScenarioBuild

SpecScenario == InitScenario /\ [][NextScenario]_vars

\* Two subrouters of one Mux: the first Mux is given middlewares in at most
\* MaxParentUses Use calls, Subrouter is called on it twice, and then the two
\* subrouters are given middlewares and handlers in any order, at most
\* MaxSiblingCalls calls when the parent had all its Use calls.
MaxParentUses == 2
MaxSiblingCalls == 3

\* The subrouters: every Mux but the first.
Siblings == Muxes \ {1}

SiblingsParentUse ==
    /\ phase = "parent"
    /\ ncalls < MaxParentUses
    /\ phase' = "parent"
    /\ \E middleware \in MuxUseInputs(ncalls + 1) : MuxUse(1, middleware)

SiblingsFirstSubrouter ==
    /\ phase = "parent"
    /\ phase' = "first"
    /\ MuxSubrouter(1)

SiblingsSecondSubrouter ==
    /\ phase = "first"
    /\ phase' = "siblings"
    /\ MuxSubrouter(1)

SiblingsBudget ==
    /\ phase = "siblings"
    /\ ncalls < MaxParentUses + Cardinality(Siblings) + MaxSiblingCalls
    /\ phase' = "siblings"

SiblingsUse ==
    /\ SiblingsBudget
    /\ \E mux \in Siblings, middleware \in MuxUseInputs(ncalls + 1) : MuxUse(mux, middleware)

SiblingsHandle ==
    /\ SiblingsBudget
    /\ \E mux \in Siblings, pattern \in MuxPatternInputs :
          MuxHandle(mux, pattern, HandlerOf(ncalls + 1))

SiblingsHandleFunc ==
    /\ SiblingsBudget
    /\ \E mux \in Siblings, pattern \in MuxPatternInputs :
          MuxHandleFunc(mux, pattern, OtherHandlerOf(ncalls + 1))

InitSiblings ==
    /\ NewServeMuxBuilder
    /\ NewMux
    /\ ncalls = 0
    /\ argMw = <<>>
    /\ argH = "h"
    /\ wrapped = <<>>
    /\ trace = <<>>
    /\ phase = "parent"

NextSiblings ==
    \/ SiblingsParentUse
    \/ SiblingsFirstSubrouter
    \/ SiblingsSecondSubrouter
    \/ SiblingsUse
    \/ SiblingsHandle
    \/ SiblingsHandleFunc

SpecSiblings == InitSiblings /\ [][NextSiblings]_vars

\* ------------------------------------------------------------------ claims
\* A step that is a Pattern call on b with the map patterns.
PatternStep(b, patterns) ==
    \E ord \in Orders(DOMAIN patterns) : Pattern(b, patterns, ord)

\* A step that is a Build call (a Build call leaves the tree as it is).
BuildStep ==
    /\ UNCHANGED << Patterns, PatternPrefix, Middlewares, Parent, SubServeMuxBuilder >>
    /\ \E b \in Nodes :
          \E items \in Registrations(Traverse(<<Root[b]>>, {})) : Build(b, items)

\* "METHOD /path" or "/path".
WellFormed(pattern) ==
    LET parts == Split(pattern)
    IN \/ Len(parts) = 1 /\ parts[1] # <<>> /\ parts[1][1] = "/"
       \/ Len(parts) = 2 /\ parts[1] # <<>> /\ parts[2] # <<>> /\ parts[2][1] = "/"

NoDoubleSlash(k) ==
    \A i \in 1 .. (Len(k) - 1) : ~(k[i] = "/" /\ k[i + 1] = "/")

\* Two different builders hold the same key.
Collide ==
    \E m, n \in Nodes : m # n /\ (DOMAIN Patterns[m]) \cap (DOMAIN Patterns[n]) # {}

AllKeys == UNION { DOMAIN Patterns[n] : n \in Nodes }

NumKeys == SumOver([n \in Nodes |-> Cardinality(DOMAIN Patterns[n])], Len(Parent))

\* C1: every key a Pattern call stores for a builder is the method, then the
\* join of the fragments Prefix set on the builders from the root down to it and
\* of the registered path, with runs of separators collapsed; however many
\* subrouters exist and whenever Pattern was called.
C1_KeysFollowAncestorChain ==
    [][\A b \in Nodes : \A patterns \in PatternInputs(PatternCalls + 1) :
          PatternStep(b, patterns) =>
              \A s \in DOMAIN patterns :
                  PatternKey(PatternPrefix'[b], s) = ChainKey(b, s)]_vars

\* C2: a builder's middleware list is its parent's list as it was when Subrouter
\* created the builder, followed by the middlewares passed to Use on the builder
\* itself, and Build wraps the builder's handlers with exactly that chain; Use on
\* the parent afterwards does not change it.
C2_MiddlewareSnapshot ==
    [][/\ \A n \in 1 .. Len(Parent') : Middlewares'[n] = inherited'[n] \o used'[n]
       /\ (BuildStep /\ buildResult'.status = "returned") =>
              \A n \in Nodes : \A k \in DOMAIN Patterns[n] :
                  /\ k \in DOMAIN defaultServeMux'
                  /\ defaultServeMux'[k] = inherited[n] \o used[n] \o <<Patterns[n][k]>>]_vars

\* C2 witness: Build returned a table holding a handler of a subrouter whose
\* parent had middlewares when it was created and was given more afterwards.
C2_Witness ==
    /\ buildResult.status = "returned"
    /\ \E c \in Nodes :
          /\ Parent[c] # c
          /\ inherited[c] # <<>>
          /\ Middlewares[Parent[c]] # inherited[c]
          /\ Middlewares[c] = inherited[c]
          /\ \E k \in DOMAIN Patterns[c] :
                /\ k \in DOMAIN defaultServeMux
                /\ defaultServeMux[k] = inherited[c] \o <<Patterns[c][k]>>

\* C3: invoking newHandler(m0, ..., mn-1)(h) runs the pre-handler logic of m0,
\* then of m1, ..., then of mn-1, then h, then the post-handler logic in the
\* reverse order; with no middleware the result is h itself.
C3_ExecutionOrder ==
    /\ (wrapped # <<>> /\ argMw = <<>>) => wrapped = <<argH>>
    /\ trace # <<>> =>
          LET n == Len(argMw)
          IN trace = [i \in 1 .. (n + n + 1) |->
                        IF i <= n THEN <<"pre", argMw[i]>>
                        ELSE IF i = n + 1 THEN <<"handler", argH>>
                        ELSE <<"post", argMw[n + n + 2 - i]>>]

\* C3 witness: a request was served by a handler wrapped in three middlewares,
\* the first and the last of them different.
C3_Witness ==
    /\ trace # <<>>
    /\ Len(argMw) >= 3
    /\ argMw[1] # argMw[Len(argMw)]
    /\ wrapped = argMw \o <<argH>>

C5_SecondBuildRejected ==
    [][\A b \in Nodes :
          ((\E items \in Registrations(Traverse(<<Root[b]>>, {})) : Build(b, items))
             /\ executedBuild[Root[b]] /\ AllKeys # {}) =>
              /\ buildResult'.status # "returned"
              /\ registeredPatterns' = registeredPatterns]_vars

\* C6: on a tree whose registrations do not collide, a Build call returns a table
\* with exactly the keys the builders hold, and appends each (builder, key)
\* registration exactly once to the root's registered-patterns list.
C6_RoundTrip ==
    [][(BuildStep /\ ~Collide) =>
          LET old == registeredPatterns[Root[1]]
              new == registeredPatterns'[Root[1]]
          IN /\ buildResult'.status = "returned"
             /\ DOMAIN defaultServeMux' = AllKeys
             /\ Len(new) = Len(old) + NumKeys
             /\ SubSeq(new, 1, Len(old)) = old
             /\ { new[i] : i \in (Len(old) + 1) .. Len(new) } = DOMAIN defaultServeMux']_vars

\* C7: no key of a Patterns map, of the registered-patterns list or of the built
\* table holds two consecutive separators.
C7_NoDoubledSeparators ==
    /\ \A b \in Nodes :
          /\ \A k \in DOMAIN Patterns[b] : NoDoubleSlash(k)
          /\ \A i \in DOMAIN registeredPatterns[b] : NoDoubleSlash(registeredPatterns[b][i])
    /\ \A k \in DOMAIN defaultServeMux : NoDoubleSlash(k)

\* C7 witness: the root has the prefix "/p//" and holds the key "/p/a", which
\* only the spec "//a" gives.
C7_Witness ==
    /\ frag[1] = <<"/", "p", "/", "/">>
    /\ PatternPrefix[1] = <<"/", "p", "/", "/">>
    /\ <<"/", "p", "/", "a">> \in DOMAIN Patterns[1]

\* C8: a Pattern call given a spec that is neither "METHOD /path" nor "/path"
\* stores no entry and leaves the tree unchanged.
C8_MalformedSpecRejected ==
    [][\A b \in Nodes : \A patterns \in PatternInputs(PatternCalls + 1) :
          (PatternStep(b, patterns) /\ \E s \in DOMAIN patterns : ~WellFormed(s)) =>
              /\ Patterns' = Patterns
              /\ PatternPrefix' = PatternPrefix
              /\ SubServeMuxBuilder' = SubServeMuxBuilder]_vars

\* C9: a pattern registered on a Mux carries, after the prefix the Mux was
\* created with, only the fragment of the latest Prefix call on it.
C9_PrefixOverwrites ==
    [][\A mux \in Muxes : \A pattern \in MuxPatternInputs :
          (MuxHandle(mux, pattern, HandlerOf(ncalls + 1)) /\ muxPanic' = "") =>
              muxRegisteredPatterns'[Len(muxRegisteredPatterns')] =
                  MethodOf(pattern) \o muxInherited[mux] \o muxFrag[mux]
                      \o PathOf(pattern)]_vars

\* C10: a Pattern call that registers again, on the same builder, specs whose
\* (method, path) the builder already holds adds no key to the builder's
\* Patterns map and binds the entry to the handler of this call.
C10_LocalOverwrite ==
    [][\A b \in Nodes : \A patterns \in PatternInputs(PatternCalls + 1) :
          (PatternStep(b, patterns)
             /\ \A s \in DOMAIN patterns : ChainKey(b, s) \in DOMAIN Patterns[b]) =>
              /\ DOMAIN Patterns'[b] = DOMAIN Patterns[b]
              /\ \A s \in DOMAIN patterns :
                    \E s2 \in DOMAIN patterns :
                        Patterns'[b][ChainKey(b, s)] = patterns[s2]]_vars

\* C11: the table a Build call returned is a snapshot: only a Build call changes
\* the table; a Use, Prefix, Pattern or Subrouter call leaves its keys and the
\* chain around each of its handlers as they are.
C11_TableIsSnapshot ==
    [][defaultServeMux' # defaultServeMux => BuildStep]_vars

\* C11 witness: after Build returned a table, a later call changed the tree, so
\* that the table holds a key of a builder with a chain that is no longer the
\* builder's middleware list.
C11_Witness ==
    /\ buildResult.status = "returned"
    /\ \E n \in Nodes : \E k \in DOMAIN Patterns[n] :
          /\ k \in DOMAIN defaultServeMux
          /\ defaultServeMux[k] # newHandler(Middlewares[n], <<Patterns[n][k]>>)
          /\ Len(defaultServeMux[k]) < Len(Middlewares[n]) + 1

\* A step that is a Build call on b.
BuildOn(b) ==
    /\ UNCHANGED << Patterns, PatternPrefix, Middlewares, Parent, SubServeMuxBuilder >>
    /\ \E items \in BuildItems(b) : Build(b, items)

\* C12: Build builds from the root: a Build call on any builder of the tree does
\* what a Build call on the root does, with the same table and the same
\* registered-patterns list.
C12_BuildFromRoot ==
    [][\A b \in Nodes : BuildOn(b) <=> BuildOn(Root[b])]_vars

\* C12 witness: Build returned on a tree with a subrouter; the table holds a key
\* of the root and a key of the subrouter, and the root's list holds both.
C12_Witness ==
    /\ buildResult.status = "returned"
    /\ \E n \in Nodes : \E k \in DOMAIN Patterns[n] : \E j \in DOMAIN Patterns[Root[n]] :
          /\ n # Root[n]
          /\ k # j
          /\ {k, j} \subseteq DOMAIN defaultServeMux
          /\ {k, j} \subseteq { registeredPatterns[Root[n]][i] :
                                   i \in DOMAIN registeredPatterns[Root[n]] }
          /\ registeredPatterns[n] = <<>>

StartsWith(s, p) == Len(p) <= Len(s) /\ SubSeq(s, 1, Len(p)) = p

\* The fragments Prefix set on the ancestors of n, from the root down.
AncestorPrefix(n) == IF Parent[n] = n THEN <<>> ELSE ChainPrefix(Parent[n])

\* C13: the keys a Build call registers carry the ancestors' fragments as they
\* are when Build runs: the path of every key of a builder begins with the
\* fragments set on its ancestors, also when Prefix was called on an ancestor
\* after the builder's Pattern call.
C13_KeysReflectPrefixAtBuild ==
    [][(BuildStep /\ buildResult'.status = "returned") =>
          \A n \in Nodes : \A k \in DOMAIN Patterns[n] :
              /\ k \in DOMAIN defaultServeMux'
              /\ StartsWith(SinkPath(k), CollapseRuns(AncestorPrefix(n)))]_vars

\* The keys the scenario's Pattern call on n must store: for every spec the
\* method, then the fragments of the chain root..n joined with the path.
ScenarioKeys(n, patterns) == { ChainKey(n, s) : s \in DOMAIN patterns }

\* The Pattern calls of the scenario store the claimed keys.
ScenarioPatternsAsClaimed ==
    /\ \A patterns \in ScenarioPatternInputs(PatternCalls + 1) :
          (phase' = "rootPattern" /\ PatternStep(1, patterns)) =>
              DOMAIN Patterns'[1] = ScenarioKeys(1, patterns)
    /\ \A patterns \in ScenarioPatternInputs(PatternCalls + 1) :
          (phase' = "childPattern" /\ PatternStep(2, patterns)) =>
              DOMAIN Patterns'[2] = ScenarioKeys(2, patterns)

\* The Build call of the scenario returns the claimed table: the root's keys
\* wrapped by R, the child's keys wrapped by R followed by C.
ScenarioTableAsClaimed ==
    /\ buildResult'.status = "returned"
    /\ DOMAIN defaultServeMux' = (DOMAIN Patterns[1]) \cup (DOMAIN Patterns[2])
    /\ \A k \in DOMAIN Patterns[1] :
          defaultServeMux'[k] = used[1] \o <<Patterns[1][k]>>
    /\ \A k \in DOMAIN Patterns[2] :
          defaultServeMux'[k] = used[1] \o used[2] \o <<Patterns[2][k]>>

C15_WrappedByListAtBuild ==
    [][(BuildStep /\ buildResult'.status = "returned") =>
          \A n \in Nodes : \A k \in DOMAIN Patterns[n] :
              /\ k \in DOMAIN defaultServeMux'
              /\ defaultServeMux'[k] = Middlewares[n] \o <<Patterns[n][k]>>
              /\ Len(used[n]) <= Len(Middlewares[n])
              /\ SubSeq(Middlewares[n], Len(Middlewares[n]) - Len(used[n]) + 1,
                        Len(Middlewares[n])) = used[n]]_vars

\* C15 witness: Build returned a table in which a handler of a builder is
\* wrapped by the two middlewares passed to Use on the builder in two calls, in
\* call order (the state is the same with Use called before or after Pattern).
C15_Witness ==
    /\ buildResult.status = "returned"
    /\ \E n \in Nodes : \E k \in DOMAIN Patterns[n] :
          /\ Len(used[n]) = 2 /\ used[n][1] # used[n][2]
          /\ k \in DOMAIN defaultServeMux
          /\ defaultServeMux[k] = Middlewares[n] \o <<Patterns[n][k]>>
          /\ Len(defaultServeMux[k]) = 3

\* The builder reached from n by following Parent k times.
RECURSIVE Climb(_, _)
Climb(n, k) == IF k = 0 THEN n ELSE Climb(Parent[n], k - 1)

\* C16: exactly one builder of the tree is its own Parent; it is its own Root and
\* the Root of every builder, and following Parent from any builder reaches it
\* in finitely many steps.
C16_TreeShape ==
    /\ Cardinality({ n \in Nodes : Parent[n] = n }) = 1
    /\ \A n \in Nodes :
          /\ Parent[Root[n]] = Root[n]
          /\ Root[Root[n]] = Root[n]
          /\ Parent[n] \in Nodes
          /\ \E k \in 0 .. Len(Parent) : Climb(n, k) = Root[n]

\* C16 witness: a tree with a subrouter of a subrouter on which Pattern and Build
\* were called.
C16_Witness ==
    /\ buildResult.status # "none"
    /\ \E n \in Nodes :
          /\ Parent[n] # n
          /\ Parent[n] # Root[n]
          /\ Patterns[n] # EmptyMap

\* C17: a builder's child list holds only builders created by Subrouter on it,
\* each once and in creation order, and never the builder itself or one of its
\* ancestors.
C17_ChildrenInvariant ==
    \A n \in Nodes :
        LET children == SubServeMuxBuilder[n]
        IN /\ \A i \in DOMAIN children :
                 /\ children[i] # n
                 /\ Parent[children[i]] = n
                 /\ ~\E k \in 0 .. Len(Parent) : Climb(n, k) = children[i]
           /\ \A i, j \in DOMAIN children : i < j => children[i] < children[j]
           /\ { children[i] : i \in DOMAIN children } =
                  { c \in Nodes : c # n /\ Parent[c] = n }

\* C18: a Build call ends after one iteration for the root and one for every
\* entry of a child list, processes every builder of the tree exactly once,
\* also a builder that stands several times in child lists or in its own, and,
\* when it returns, has registered every pattern exactly once.
C18_BuildTerminatesOncePerNode ==
    [][BuildStep =>
          LET root == Root[1]
              order == Traverse(<<root>>, {})
              old == registeredPatterns[root]
              new == registeredPatterns'[root]
          IN /\ \A n \in Nodes : Count(order, n) = 1
             /\ Len(order) = Len(Parent)
             /\ Iterations(<<root>>, {}) =
                    1 + SumOver([n \in Nodes |-> Len(SubServeMuxBuilder[n])], Len(Parent))
             /\ buildResult'.status = "returned" =>
                   /\ Len(new) = Len(old) + NumKeys
                   /\ \A k \in AllKeys : Count(SubSeq(new, Len(old) + 1, Len(new)), k) = 1]_vars

\* C18 witness: Build returned on a tree in which a builder stands twice in its
\* own child list, beside a subrouter that stands in its own child list too.
C18_Witness ==
    /\ buildResult.status = "returned"
    /\ \E n, c \in Nodes :
          /\ c # n
          /\ Parent[c] = n
          /\ Count(SubServeMuxBuilder[n], n) >= 2
          /\ Count(SubServeMuxBuilder[c], c) >= 1
          /\ registeredPatterns[Root[n]] # <<>>

\* The depth of a builder: the number of Parent links up to the root.
RECURSIVE Depth(_)
Depth(n) == IF Parent[n] = n THEN 0 ELSE 1 + Depth(Parent[n])

\* The number of patterns of the builders before the i-th of order.
RECURSIVE OffsetOf(_, _)
OffsetOf(order, i) ==
    IF i = 1 THEN 0
    ELSE OffsetOf(order, i - 1) + Cardinality(DOMAIN Patterns[order[i - 1]])

\* C19: Build processes the builders breadth first, the children of a builder in
\* the order Subrouter created them: a builder never comes before a builder of
\* smaller depth, siblings come in creation order, and the patterns a returning
\* Build appends to the registered-patterns list are the patterns of the
\* builders, builder after builder in that order.
C19_BreadthFirstInsertionOrder ==
    [][BuildStep =>
          LET root == Root[1]
              order == Traverse(<<root>>, {})
              old == registeredPatterns[root]
              new == registeredPatterns'[root]
          IN /\ \A i, j \in DOMAIN order :
                   i < j =>
                       /\ Depth(order[i]) <= Depth(order[j])
                       /\ (Parent[order[i]] = Parent[order[j]] /\ order[i] # root)
                              => order[i] < order[j]
             /\ buildResult'.status = "returned" =>
                   \A i \in DOMAIN order :
                       { new[Len(old) + OffsetOf(order, i) + p] :
                            p \in 1 .. Cardinality(DOMAIN Patterns[order[i]]) }
                           = DOMAIN Patterns[order[i]]]_vars

\* C19 witness: Build returned on a tree with two subrouters of the root that
\* hold different keys; the list holds the key of the subrouter created first
\* before the key of the one created second.
C19_Witness ==
    /\ buildResult.status = "returned"
    /\ \E a, b \in Nodes :
          /\ a < b
          /\ a # Root[a] /\ b # Root[b]
          /\ Parent[a] = Parent[b]
          /\ \E i, j \in DOMAIN registeredPatterns[Root[a]] :
                /\ i < j
                /\ registeredPatterns[Root[a]][i] \in DOMAIN Patterns[a]
                /\ registeredPatterns[Root[a]][j] \in DOMAIN Patterns[b]
                /\ registeredPatterns[Root[a]][i] \notin DOMAIN Patterns[b]
                /\ registeredPatterns[Root[a]][j] \notin DOMAIN Patterns[a]

\* C20: a Build call that fails on a colliding key leaves the tree as it was:
\* no Patterns map, prefix, middleware list or child list changes, the root's
\* registered-patterns list gains no entry and the build-executed flag keeps
\* its value.
C20_FailedBuildLeavesTree ==
    [][(BuildStep /\ buildResult'.status = "panic" /\ buildResult'.reason = "conflict") =>
          /\ UNCHANGED << Patterns, PatternPrefix, Middlewares, SubServeMuxBuilder >>
          /\ registeredPatterns' = registeredPatterns
          /\ executedBuild' = executedBuild]_vars

\* The key a Handle or HandleFunc call on mux registers pattern under.
MuxKey(mux, pattern) ==
    splitPattern(pattern).method \o patternPrefix[mux] \o splitPattern(pattern).patternPath

\* Handle or HandleFunc on mux registered wrapped under the key of pattern.
MuxHandleStep(mux, pattern) ==
    /\ UNCHANGED << patternPrefix, middlewares, arrays >>
    /\ muxPanic' = ""
    /\ \/ MuxHandle(mux, pattern, HandlerOf(ncalls + 1))
       \/ MuxHandleFunc(mux, pattern, OtherHandlerOf(ncalls + 1))

\* C21: sibling isolation in the Mux variant: when Handle or HandleFunc on one of
\* two subrouters of the same Mux registers a handler, the handler is wrapped by
\* exactly the parent's middlewares at the subrouter's creation followed by the
\* middlewares passed to Use on that subrouter itself; a Use call on the other
\* subrouter has no part in it.
C21_SiblingIsolation ==
    [][\A mux \in Siblings, pattern \in MuxPatternInputs :
          MuxHandleStep(mux, pattern) =>
              \E handler \in {<<HandlerOf(ncalls + 1)>>,
                              <<HandlerFunc(OtherHandlerOf(ncalls + 1))>>} :
                  muxify'[MuxKey(mux, pattern)] = newHandler(muxChain[mux], handler)]_vars

====
